---- MODULE Spec2Model ----
(***************************************************************************)
(* Model of the timeline application's core (src/src/App.jsx):             *)
(* the relative-importance engine calculateRelativeImportance, the zoom    *)
(* filter visibleEvents and the layout builder layoutItems.                *)
(*                                                                         *)
(* JavaScript arrays and objects are modelled in an explicit store, so     *)
(* that "sort in place", "spread copy" and "object spread" are different   *)
(* things: mem.objs is the object store (an object reference is an index   *)
(* into it), mem.arrs the array store (an array reference is an index into *)
(* it, an array is a sequence of object references).                       *)
(***************************************************************************)
EXTENDS Integers, Sequences, FiniteSets, TLC

\* ------------------------------------------------------------------ bounds
\* Longest raw event list handed to the normalizer.
MaxLen == 3

\* Longest list for the tier sizes (more than ten events are needed).
MaxLongLen == 12

\* Longest list of events that are ranked by a rotation of 10, 20, 30, ...
MaxRankedLen == 10

\* Most requests (add events, import, save) started in one run of the App.
MaxRequests == 2

\* Longest list of visible events handed to layoutItems.
MaxLayoutLen == 3

\* ------------------------------------------------------- JavaScript values
\* A JavaScript value of a numeric field: a number, undefined (field absent),
\* NaN, or a string that does not convert to a number.
Undefined == [kind |-> "undefined", val |-> 0]
NaN == [kind |-> "NaN", val |-> 0]
NonNumericString == [kind |-> "string", val |-> 0]
Num(n) == [kind |-> "number", val |-> n]

\* ToBoolean(v) is false: undefined, NaN and 0 are falsy; a non-empty string
\* and every other number are truthy.
Falsy(v) == v.kind \in {"undefined", "NaN"} \/ (v.kind = "number" /\ v.val = 0)

\* v || d
OrDefault(v, d) == IF Falsy(v) THEN d ELSE v

\* a - b: both operands go through ToNumber; a non-numeric string or
\* undefined converts to NaN and NaN is contagious.
Minus(a, b) ==
  IF a.kind = "number" /\ b.kind = "number" THEN Num(a.val - b.val) ELSE NaN

\* Array.prototype.sort reads the comparator's result v: NaN counts as +0
\* (ECMAScript SortCompare: "If v is NaN, return +0").
SortCompare(v) == IF v.kind = "number" THEN v.val ELSE 0

\* ------------------------------------------------------------------- dates
\* An event's date string "YYYY-MM-DD" is modelled by <<year, month, day>>.
\* new Date(date), read as a number: the dates of the model are valid, and
\* their time values order as the calendar does.
DateValue(date) == (date[1] * 12 + (date[2] - 1)) * 31 + (date[3] - 1)

\* new Date(date).getFullYear(), for a date that is not within the zone
\* offset of a new year.
GetFullYear(date) == date[1]

Dates == { <<1900, 3, 1>>, <<1940, 6, 15>>, <<2020, 6, 15>> }

\* Values of absoluteImportance that ingestion hands over: a number of the
\* documented range, or nothing.
Importances == { Undefined, Num(10), Num(20) }

\* ------------------------------------------------------------------- store
VARIABLES mem, pre, arg, ret, pc, zoomLevel

\* The App component's state and its surroundings: the event collection, the
\* loading flag, the error message, the requests in flight, the library as
\* the snapshot listener delivers it, the clock read by Date.now(), the
\* number of requests started so far, the last operation that set the
\* collection and the list the last library load delivered.
VARIABLES events, loading, error, inflight, savedTimelines, now, requests,
          lastOp, loaded

\* The signed-in user (present or not) and, for the variant that retries
\* its AI request, how the last generation that settled went.
VARIABLES user, gen

coreVars == <<mem, pre, arg, ret, pc>>

appVars ==
  <<events, loading, error, inflight, savedTimelines, now, requests, lastOp, loaded>>

vars == <<coreVars, zoomLevel, appVars, user, gen>>

Min(a, b) == IF a <= b THEN a ELSE b

\* Math.ceil(a / b) for a >= 0, b > 0.  (((idx + 1) / total) * 10 is computed
\* in doubles; for every total below 3000 its ceiling equals the exact one.)
CeilDiv(a, b) == (a + b - 1) \div b

\* The events an array holds, in order.
Deref(m, a) == [i \in 1..Len(m.arrs[a]) |-> m.objs[m.arrs[a][i]]]

\* A newly allocated array holding `contents`.
NewArray(m, contents) ==
  [mem |-> [m EXCEPT !.arrs = Append(@, contents)], ref |-> Len(m.arrs) + 1]

\* ---------------------------------------------------- Array.prototype.sort
\* Insert x into the sorted sequence s after every element that does not
\* compare greater than x: cmp[<<e, x>>] <= 0 keeps e before x.
InsertStable(s, x, cmp) ==
  LET later == {j \in 1..Len(s) : cmp[<<s[j], x>>] > 0}
      k == IF later = {} THEN Len(s) + 1
           ELSE CHOOSE j \in later : \A i \in later : j <= i
  IN SubSeq(s, 1, k - 1) \o <<x>> \o SubSeq(s, k, Len(s))

\* Mutation: ties are placed before the elements they are equal to.
UnstableSort(s, cmp) ==
  LET InsertBefore(t, x) ==
        LET later == {j \in 1..Len(t) : cmp[<<t[j], x>>] >= 0}
            k == IF later = {} THEN Len(t) + 1
                 ELSE CHOOSE j \in later : \A i \in later : j <= i
        IN SubSeq(t, 1, k - 1) \o <<x>> \o SubSeq(t, k, Len(t))
      ins[k \in 0..Len(s)] ==
        IF k = 0 THEN <<>> ELSE InsertBefore(ins[k - 1], s[k])
  IN ins[Len(s)]

\* The stable sort ECMAScript 2019 requires: the sorted permutation of s
\* under the comparator table cmp, equal elements in their original order.
StableSort(s, cmp) ==
  LET ins[k \in 0..Len(s)] ==
        IF k = 0 THEN <<>> ELSE InsertStable(ins[k - 1], s[k], cmp)
  IN ins[Len(s)]

\* ECMAScript's "consistent comparator" over the values of a list, for the
\* comparator result c(a, b): equality is symmetric and transitive, and each
\* of less-than and greater-than is transitive.
ConsistentComparator(l) ==
  LET c(a, b) ==
        SortCompare(Minus(OrDefault(l[a].absoluteImportance, Num(0)),
                          OrDefault(l[b].absoluteImportance, Num(0))))
      I == 1..Len(l)
  IN /\ \A a \in I : c(a, a) = 0
     /\ \A a, b \in I : c(a, b) = 0 => c(b, a) = 0
     /\ \A a, b, d \in I : (c(a, b) = 0 /\ c(b, d) = 0) => c(a, d) = 0
     /\ \A a, b, d \in I : (c(a, b) < 0 /\ c(b, d) < 0) => c(a, d) < 0
     /\ \A a, b, d \in I : (c(a, b) > 0 /\ c(b, d) > 0) => c(a, d) > 0

\* ------------------------------------------- calculateRelativeImportance
\* Mutation: the comparator with its operands swapped.
ImportanceCompareReversed(m, a, b) ==
  Minus(OrDefault(m.objs[b].absoluteImportance, Num(0)),
        OrDefault(m.objs[a].absoluteImportance, Num(0)))

\* (a, b) => (a.absoluteImportance || 0) - (b.absoluteImportance || 0)
ImportanceCompare(m, a, b) ==
  Minus(OrDefault(m.objs[a].absoluteImportance, Num(0)),
        OrDefault(m.objs[b].absoluteImportance, Num(0)))

\* Mutation: dates compared latest first.
DateCompareReversed(m, a, b) ==
  Num(DateValue(m.objs[b].date) - DateValue(m.objs[a].date))

\* (a, b) => new Date(a.date) - new Date(b.date)
DateCompare(m, a, b) ==
  Num(DateValue(m.objs[a].date) - DateValue(m.objs[b].date))

\* Mutation: no copy is taken, the "copy" is the argument itself.
NoCopy(m, a) == [mem |-> m, ref |-> a]

\* [...rawEvents]: a new array holding the same object references.
SpreadCopy(m, a) == NewArray(m, m.arrs[a])

\* Mutation: the list is ranked in the order it was given.
RankInGivenOrder(m, a) == m

\* sorted.sort(byImportance): array a is sorted in place.
SortByImportance(m, a) ==
  LET refs == {m.arrs[a][i] : i \in 1..Len(m.arrs[a])}
      cmp == [p \in refs \X refs |-> SortCompare(ImportanceCompare(m, p[1], p[2]))]
  IN [m EXCEPT !.arrs[a] = StableSort(@, cmp)]

\* (...).sort(byDate): array a is sorted in place.
SortByDate(m, a) ==
  LET refs == {m.arrs[a][i] : i \in 1..Len(m.arrs[a])}
      cmp == [p \in refs \X refs |-> SortCompare(DateCompare(m, p[1], p[2]))]
  IN [m EXCEPT !.arrs[a] = StableSort(@, cmp)]

\* Mutation: Math.floor(idx / total * 10), the zero-based decile.
LevelFloor(idx, total) == Min(10, (idx * 10) \div total)

\* Mutation: the other decile formula, Math.floor(idx / total * 10) + 1.
LevelDecile(idx, total) == Min(10, ((idx * 10) \div total) + 1)

\* Mutation: the position itself, capped.
LevelByPosition(idx, total) == Min(10, idx + 1)

\* Mutation: the cap is 9, so no event reaches the top tier.
LevelCappedAtNine(idx, total) == Min(9, CeilDiv((idx + 1) * 10, total))

\* Math.min(10, Math.ceil(((idx + 1) / total) * 10)), idx zero-based.
Level(idx, total) == Min(10, CeilDiv((idx + 1) * 10, total))

\* Mutation: the fields are copied by hand and absoluteImportance is left
\* out.
MapLevelsDroppingField(m, a) ==
  LET total == Len(m.arrs[a])
      base == Len(m.objs)
      fresh == [idx \in 1..total |->
                  [m.objs[m.arrs[a][idx]] EXCEPT
                     !.relativeImportance = Num(Level(idx - 1, total)),
                     !.absoluteImportance = Undefined]]
  IN NewArray([m EXCEPT !.objs = @ \o fresh], [idx \in 1..total |-> base + idx])

\* Mutation: the level is written into the event object itself.
MapLevelsInPlace(m, a) ==
  LET total == Len(m.arrs[a])
      pos(r) == CHOOSE i \in 1..total : m.arrs[a][i] = r
      refs == {m.arrs[a][i] : i \in 1..total}
  IN NewArray([m EXCEPT !.objs =
                 [r \in DOMAIN m.objs |->
                    IF r \in refs
                    THEN [m.objs[r] EXCEPT !.relativeImportance = Num(Level(pos(r) - 1, total))]
                    ELSE m.objs[r]]],
              m.arrs[a])

\* sorted.map((evt, idx) => ({ ...evt, relativeImportance: level })): a new
\* array of new objects, each a copy of the event with its level set.
MapLevels(m, a) ==
  LET total == Len(m.arrs[a])
      base == Len(m.objs)
      fresh == [idx \in 1..total |->
                  [m.objs[m.arrs[a][idx]] EXCEPT
                     !.relativeImportance = Num(Level(idx - 1, total))]]
  IN NewArray([m EXCEPT !.objs = @ \o fresh], [idx \in 1..total |-> base + idx])

\* calculateRelativeImportance(rawEvents): the store after the call and the
\* array it returns.
calculateRelativeImportance(m, rawEvents) ==
  IF Len(m.arrs[rawEvents]) = 0 THEN NewArray(m, <<>>)
  ELSE LET copied == SpreadCopy(m, rawEvents)
           sorted == SortByImportance(copied.mem, copied.ref)
           mapped == MapLevels(sorted, copied.ref)
       IN [mem |-> SortByDate(mapped.mem, mapped.ref), ref |-> mapped.ref]

\* ------------------------------------------------------------ visibleEvents
\* The zoom slider's range: min="1" max="10".
ZoomLevels == 1..10

\* Mutation: the filter removes the hidden events from the array itself.
FilterInPlace(m, list, z) ==
  LET keep == SelectSeq(m.arrs[list],
                LAMBDA r : OrDefault(m.objs[r].relativeImportance, Num(1)).val >= 11 - z)
  IN [mem |-> [m EXCEPT !.arrs[list] = keep], ref |-> list]

\* Mutation: the threshold is 10 - zoomLevel.
FilterOffByOne(m, list, z) ==
  NewArray(m, SelectSeq(m.arrs[list],
                LAMBDA r : OrDefault(m.objs[r].relativeImportance, Num(1)).val >= 10 - z))

\* events.filter(e => (e.relativeImportance || 1) >= (11 - zoomLevel)): a
\* new array holding, in order, the references that pass.
filterByZoom(m, list, z) ==
  NewArray(m, SelectSeq(m.arrs[list],
                LAMBDA r : OrDefault(m.objs[r].relativeImportance, Num(1)).val >= 11 - z))

\* -------------------------------------------------------------- layoutItems
\* let lastYear = null
Null == [kind |-> "null", val |-> 0]

\* Mutation: the step table 50 / 10 / 5 with thresholds 100 and 20.
StepByHundredAndTwenty(year, lastYear) ==
  IF year - lastYear > 100 THEN 50 ELSE IF year - lastYear > 20 THEN 10 ELSE 5

\* const step = (year - lastYear) > 50 ? 25 : 5
Step(year, lastYear) == IF year - lastYear > 50 THEN 25 ELSE 5

\* Mutation: the loop runs while y <= year.
MarkersUpToYear(lastYear, year, idx) ==
  LET step == Step(year, lastYear)
      count == (year - lastYear) \div step
  IN [j \in 1..count |->
        [type |-> "marker", year |-> lastYear + j * step, data |-> 0,
         id |-> <<lastYear + j * step, idx>>]]

\* for (let y = lastYear + step; y < year; y += step) items.push(marker y)
Markers(lastYear, year, idx) ==
  LET step == Step(year, lastYear)
      count == (year - lastYear - 1) \div step
  IN [j \in 1..count |->
        [type |-> "marker", year |-> lastYear + j * step, data |-> 0,
         id |-> <<lastYear + j * step, idx>>]]

\* Mutation: the event item is pushed before the markers that lead to it.
ItemsForEventFirst(m, r, k, lastYear) ==
  LET year == GetFullYear(m.objs[r].date)
      markers == IF lastYear.kind # "null" /\ year > lastYear.val
                 THEN Markers(lastYear.val, year, k - 1) ELSE <<>>
  IN << [type |-> "event", year |-> 0, data |-> r, id |-> <<m.objs[r].id>>] >> \o markers

\* The items pushed by the forEach callback for the event at one-based
\* position k, given the lastYear left by the events before it.
ItemsFor(m, r, k, lastYear) ==
  LET year == GetFullYear(m.objs[r].date)
      markers == IF lastYear.kind # "null" /\ year > lastYear.val
                 THEN Markers(lastYear.val, year, k - 1) ELSE <<>>
  IN markers \o << [type |-> "event", year |-> 0, data |-> r, id |-> <<m.objs[r].id>>] >>

\* Mutation: the loop writes the computed year back into the event.
LayoutInPlace(m, visible) ==
  LET refs == {m.arrs[visible][i] : i \in 1..Len(m.arrs[visible])}
  IN NewArray([m EXCEPT !.objs =
                 [r \in DOMAIN m.objs |->
                    IF r \in refs
                    THEN [m.objs[r] EXCEPT !.date = <<GetFullYear(m.objs[r].date), 1, 1>>]
                    ELSE m.objs[r]]],
              m.arrs[visible])

\* layoutItems: a new array of new item objects; an event item refers to the
\* event object it wraps.
buildLayout(m, visible) ==
  LET evs == m.arrs[visible]
      walk[k \in 0..Len(evs)] ==
        IF k = 0 THEN [items |-> <<>>, lastYear |-> Null]
        ELSE [items |-> walk[k - 1].items
                          \o ItemsFor(m, evs[k], k, walk[k - 1].lastYear),
              lastYear |-> Num(GetFullYear(m.objs[evs[k]].date))]
      items == walk[Len(evs)].items
      base == Len(m.objs)
  IN NewArray([m EXCEPT !.objs = @ \o items], [i \in 1..Len(items) |-> base + i])

\* ------------------------------------------------------------ state machine
\* A raw event as ingestion builds it: ids are distinct, relativeImportance
\* is not set yet.
RawEvent(i, date, imp) ==
  [id |-> i, date |-> date, absoluteImportance |-> imp, relativeImportance |-> Undefined]

\* The state the App component mounts with: useState([]), useState(false),
\* useState(''), nothing requested, nothing loaded.
AppMounted ==
  /\ events = <<>>
  /\ loading = FALSE
  /\ error = ""
  /\ inflight = {}
  /\ savedTimelines = {}
  /\ now = 0
  /\ requests = 0
  /\ lastOp = "none"
  /\ loaded = <<>>
  /\ gen = [outcome |-> "none", tries |-> 0, waits |-> <<>>]

RawLists(dates, imps, maxLen) ==
  UNION { { [i \in 1..n |-> RawEvent(i, d[i], p[i])] :
              d \in [1..n -> dates], p \in [1..n -> imps] } : n \in 0..maxLen }

InitWith(lists) ==
  /\ \E l \in lists :
       mem = [objs |-> l, arrs |-> << [i \in 1..Len(l) |-> i] >>]
  /\ pre = mem
  /\ arg = 0
  /\ ret = 1
  /\ pc = "raw"
  /\ zoomLevel = 10
  /\ AppMounted
  /\ user = FALSE

Init == InitWith(RawLists(Dates, Importances, MaxLen))

\* The ingestion handlers and the Delete button pass the list to
\* calculateRelativeImportance and store what it returns.
Normalize ==
  /\ pc \in {"raw", "normalized"}
  /\ LET r == calculateRelativeImportance(mem, ret)
     IN /\ mem' = r.mem
        /\ ret' = r.ref
  /\ pre' = mem
  /\ arg' = ret
  /\ pc' = IF pc = "raw" THEN "normalized" ELSE "renormalized"
  /\ UNCHANGED <<zoomLevel, appVars, user, gen>>

\* visibleEvents recomputed at zoom level z: the normalized list is filtered.
VisibleEvents(z) ==
  /\ pc \in {"normalized", "renormalized"}
  /\ zoomLevel' = z
  /\ LET r == filterByZoom(mem, ret, z)
     IN /\ mem' = r.mem
        /\ ret' = r.ref
  /\ pre' = mem
  /\ arg' = ret
  /\ pc' = "filtered"
  /\ UNCHANGED <<appVars, user, gen>>

\* layoutItems recomputed from visibleEvents.
LayoutItems ==
  /\ pc = "filtered"
  /\ LET r == buildLayout(mem, ret)
     IN /\ mem' = r.mem
        /\ ret' = r.ref
  /\ pre' = mem
  /\ arg' = ret
  /\ pc' = "laid"
  /\ UNCHANGED <<zoomLevel, appVars, user, gen>>

Next ==
  \/ Normalize
  \/ \E z \in ZoomLevels : VisibleEvents(z)
  \/ LayoutItems

Spec == Init /\ [][Next]_vars

\* What the App draws on the track: visibleEvents.map((evt) => card), one
\* card per visible event, keyed by the event's id, and nothing else.
renderTimeline(m, visible) ==
  LET evs == m.arrs[visible]
      cards == [k \in 1..Len(evs) |->
                  [type |-> "event", year |-> 0, data |-> evs[k],
                   id |-> <<m.objs[evs[k]].id>>]]
      base == Len(m.objs)
  IN NewArray([m EXCEPT !.objs = @ \o cards], [i \in 1..Len(cards) |-> base + i])

\* The track is drawn from the visibleEvents of the last recomputation.
RenderTimeline ==
  /\ pc = "filtered"
  /\ LET r == renderTimeline(mem, ret)
     IN /\ mem' = r.mem
        /\ ret' = r.ref
  /\ pre' = mem
  /\ arg' = ret
  /\ pc' = "rendered"
  /\ UNCHANGED <<zoomLevel, appVars, user, gen>>

NextRender ==
  \/ Normalize
  \/ \E z \in ZoomLevels : VisibleEvents(z)
  \/ RenderTimeline

\* The App from an event-set mutation (normalize) over a zoom change
\* (filter) to the drawing of the track.
SpecRender == Init /\ [][NextRender]_vars

\* Long lists, for the sizes of the tiers: one date, two importances.
LongDates == { <<1940, 6, 15>> }
LongImportances == { Num(10), Num(20) }

InitLong == InitWith(RawLists(LongDates, LongImportances, MaxLongLen))

SpecLong == InitLong /\ [][Normalize]_vars

\* Lists in which absoluteImportance may be anything the AI response's JSON
\* or a stored document holds: also NaN and a string that is no number.
\* ECMAScript fixes the result of sort only for a consistent comparator, so
\* the lists are those on which the importance comparator is consistent.
AnyImportances == { Undefined, NaN, NonNumericString, Num(10), Num(20) }

InitAny ==
  InitWith({l \in RawLists(Dates, AnyImportances, MaxLen) : ConsistentComparator(l)})

SpecAny == InitAny /\ [][Normalize]_vars

\* Lists of n events dated 2000-01-01, 2001-01-01, ... in rotated order,
\* whose importances are a rotation of 10, 20, .., 10 n, ascending or
\* descending; with tie = 2 every importance is shared by two events.
RankedLists ==
  UNION { { [i \in 1..n |->
               LET r == IF down THEN n - 1 - ((i + b) % n) ELSE (i + b) % n
               IN RawEvent(i, <<2000 + ((i + c) % n), 1, 1>>, Num(10 * ((r \div tie) + 1)))] :
              b \in 1..n, c \in {1, n - 1}, down \in BOOLEAN, tie \in {1, 2} } :
          n \in 1..MaxRankedLen }

InitRanked == InitWith(RankedLists)

SpecRanked == InitRanked /\ [][Normalize]_vars

\* layoutItems on its own: the visible events are any list, in any order, of
\* events dated in the years 1800, 1850, 1900 (twice), 1901 and 2020.
LayoutDates ==
  { <<1800, 6, 15>>, <<1850, 6, 15>>, <<1900, 3, 1>>, <<1900, 9, 1>>,
    <<1901, 6, 15>>, <<2020, 6, 15>> }

VisibleLists ==
  { [i \in DOMAIN l |-> [l[i] EXCEPT !.relativeImportance = Num(10)]] :
      l \in RawLists(LayoutDates, {Num(10)}, MaxLayoutLen) }

InitLayout ==
  /\ \E l \in VisibleLists :
       mem = [objs |-> l, arrs |-> << [i \in 1..Len(l) |-> i] >>]
  /\ pre = mem
  /\ arg = 0
  /\ ret = 1
  /\ pc = "filtered"
  /\ zoomLevel = 10
  /\ AppMounted
  /\ user = FALSE

SpecLayout == InitLayout /\ [][LayoutItems]_vars

\* ------------------------------------------------------------------ the App
\* setEvents(calculateRelativeImportance(list)): the list is the function's
\* argument array; what is stored is the array it returns.
Normalized(list) ==
  LET m == [objs |-> list, arrs |-> << [i \in 1..Len(list) |-> i] >>]
      r == calculateRelativeImportance(m, 1)
  IN Deref(r.mem, r.ref)

\* `ai-${idx}-${Date.now()}`, `csv-${i}-${Date.now()}`, and the text of a
\* cell in a column headed "id".
AiId(idx, t) == [src |-> "ai", idx |-> idx, at |-> t]
CsvId(i, t) == [src |-> "csv", idx |-> i, at |-> t]
CellId(n) == [src |-> "cell", idx |-> n, at |-> 0]

\* The events of an AI response, as JSON.parse delivers them: nothing checks
\* the title or the date.  A date is a triple, the empty tuple when the
\* string is empty.
AiEvents ==
  { [date |-> <<1900, 3, 1>>, title |-> "T", absoluteImportance |-> Num(10)],
    [date |-> <<1940, 6, 15>>, title |-> "T", absoluteImportance |-> Num(20)],
    [date |-> <<1940, 6, 15>>, title |-> "", absoluteImportance |-> Num(10)] }

\* parsedData.events || []: no event, one event or two.
AiResponses ==
  {<<>>} \cup {<<e>> : e \in AiEvents} \cup {<<e, f>> : e \in AiEvents, f \in AiEvents}

\* newRawEvents.map((e, idx) => ({ ...e, id: `ai-${idx}-${Date.now()}` }))
Stamped(newRawEvents, t) ==
  [k \in 1..Len(newRawEvents) |->
     [id |-> AiId(k - 1, t),
      date |-> newRawEvents[k].date,
      title |-> newRawEvents[k].title,
      absoluteImportance |-> newRawEvents[k].absoluteImportance,
      relativeImportance |-> Undefined]]

\* A cell of the sheet: decimal digits or other text.
CellNumber(n) == [kind |-> "digits", val |-> n]
CellText == [kind |-> "text", val |-> 0]

\* parseInt(val)
ParseInt(cell) == IF cell.kind = "digits" THEN Num(cell.val) ELSE NaN

\* The data lines of a sheet, and sheets of up to two data lines with or
\* without a column headed "importance" and a column headed "id".
SheetRows ==
  { [date |-> <<1900, 3, 1>>, title |-> "T", importance |-> CellNumber(20), id |-> CellNumber(7)],
    [date |-> <<1940, 6, 15>>, title |-> "T", importance |-> CellText, id |-> CellNumber(7)],
    [date |-> <<>>, title |-> "T", importance |-> CellNumber(0), id |-> CellNumber(8)] }

Sheets ==
  { [importanceColumn |-> c, idColumn |-> d, rows |-> r] :
      c \in BOOLEAN, d \in BOOLEAN,
      r \in {<<>>} \cup {<<a>> : a \in SheetRows}
               \cup {<<a, b>> : a \in SheetRows, b \in SheetRows} }

\* The object built from data line i (zero-based): obj = { id: csv-i-now },
\* then one assignment per header; a header "id" overwrites obj.id, and
\* absoluteImportance is assigned only under an importance header.
ParsedRow(sheet, i, t) ==
  LET row == sheet.rows[i + 1]
  IN [id |-> IF sheet.idColumn THEN CellId(row.id.val) ELSE CsvId(i, t),
      date |-> row.date,
      title |-> row.title,
      absoluteImportance |->
        IF sheet.importanceColumn THEN OrDefault(ParseInt(row.importance), Num(50))
        ELSE Undefined,
      relativeImportance |-> Undefined]

\* lines.slice(1).map(...).filter(e => e.date && e.title)
ParseSheet(sheet, t) ==
  SelectSeq([k \in 1..Len(sheet.rows) |-> ParsedRow(sheet, k - 1, t)],
            LAMBDA e : e.date # <<>> /\ e.title # "")

\* A request in flight: its kind, the events its handler's closure holds,
\* the time it started and its number.
Request(kind, captured) ==
  [kind |-> kind, captured |-> captured, started |-> now, n |-> requests + 1]

\* The handlers leave the normalizer's store and the zoom level alone; the
\* user stays signed in.
AppOnly == UNCHANGED <<coreVars, zoomLevel, user, gen>>

\* handleCreateNew
handleCreateNew ==
  /\ events' = <<>>
  /\ lastOp' = "new"
  /\ loaded' = <<>>
  /\ UNCHANGED <<loading, error, inflight, savedTimelines, now, requests>>
  /\ AppOnly

\* handleAddEvents up to the await of fetch (an API key is configured).
AddEventsStart ==
  /\ ~loading
  /\ requests < MaxRequests
  /\ loading' = TRUE
  /\ error' = ""
  /\ inflight' = inflight \cup {Request("add", events)}
  /\ requests' = requests + 1
  /\ UNCHANGED <<events, savedTimelines, now, lastOp, loaded>>
  /\ AppOnly

\* A handler that would append to the events current at the response, as a
\* functional setEvents(prev => ...) would.
AddEventsArriveOnCurrent(r, newRawEvents) ==
  /\ r \in inflight
  /\ r.kind = "add"
  /\ now > r.started
  /\ events' = Normalized(events \o Stamped(newRawEvents, now))
  /\ loading' = FALSE
  /\ inflight' = inflight \ {r}
  /\ lastOp' = (IF events = r.captured THEN "add" ELSE "add-over")
  /\ loaded' = <<>>
  /\ UNCHANGED <<error, savedTimelines, now, requests>>
  /\ AppOnly

\* handleAddEvents from the response on: the new events are appended to the
\* events of the closure, the list is normalized and stored.  lastOp tells
\* whether the collection had changed since the closure was made.
AddEventsArrive(r, newRawEvents) ==
  /\ r \in inflight
  /\ r.kind = "add"
  /\ now > r.started
  /\ events' = Normalized(r.captured \o Stamped(newRawEvents, now))
  /\ loading' = FALSE
  /\ inflight' = inflight \ {r}
  /\ lastOp' = (IF events = r.captured THEN "add" ELSE "add-over")
  /\ loaded' = <<>>
  /\ UNCHANGED <<error, savedTimelines, now, requests>>
  /\ AppOnly

\* A catch block that would drop the collection along with the failed
\* request; the code's catch block only sets the error.
AddEventsFailClearing(r) ==
  /\ r \in inflight
  /\ r.kind = "add"
  /\ error' = "Archival search failed"
  /\ loading' = FALSE
  /\ inflight' = inflight \ {r}
  /\ events' = <<>>
  /\ UNCHANGED <<savedTimelines, now, requests, lastOp, loaded>>
  /\ AppOnly

\* handleAddEvents when fetch or JSON.parse throws.
AddEventsFail(r) ==
  /\ r \in inflight
  /\ r.kind = "add"
  /\ error' = "Archival search failed"
  /\ loading' = FALSE
  /\ inflight' = inflight \ {r}
  /\ UNCHANGED <<events, savedTimelines, now, requests, lastOp, loaded>>
  /\ AppOnly

\* loadFromSheet up to the await of fetch (a sheet URL is entered).  The
\* handler does not look at loading, but its only caller is the Import
\* button, which is disabled while loading.
loadFromSheetStart ==
  /\ ~loading
  /\ requests < MaxRequests
  /\ loading' = TRUE
  /\ inflight' = inflight \cup {Request("import", <<>>)}
  /\ requests' = requests + 1
  /\ UNCHANGED <<events, error, savedTimelines, now, lastOp, loaded>>
  /\ AppOnly

\* loadFromSheet from the response on: the parsed rows replace the
\* collection.
loadFromSheetArrive(r, sheet) ==
  /\ r \in inflight
  /\ r.kind = "import"
  /\ now > r.started
  /\ events' = Normalized(ParseSheet(sheet, now))
  /\ loading' = FALSE
  /\ inflight' = inflight \ {r}
  /\ lastOp' = "import"
  /\ loaded' = <<>>
  /\ UNCHANGED <<error, savedTimelines, now, requests>>
  /\ AppOnly

\* loadFromSheet when fetch throws or the text has no header line.
loadFromSheetFail(r) ==
  /\ r \in inflight
  /\ r.kind = "import"
  /\ error' = "Failed to parse sheet."
  /\ loading' = FALSE
  /\ inflight' = inflight \ {r}
  /\ UNCHANGED <<events, savedTimelines, now, requests, lastOp, loaded>>
  /\ AppOnly

\* handleSave up to the await of setDoc (the database is configured): the document holds the events of the closure
\* and its id ends in Date.now().
handleSaveStart ==
  /\ user
  /\ Len(events) # 0
  /\ requests < MaxRequests
  /\ loading' = TRUE
  /\ inflight' = inflight \cup {Request("save", events)}
  /\ requests' = requests + 1
  /\ UNCHANGED <<events, error, savedTimelines, now, lastOp, loaded>>
  /\ AppOnly

\* setDoc resolves; the snapshot listener delivers the library with the
\* document in it (a document of the same id is replaced).
handleSaveDone(r) ==
  /\ r \in inflight
  /\ r.kind = "save"
  /\ savedTimelines' =
       {tl \in savedTimelines : tl.at # r.started}
         \cup {[at |-> r.started, events |-> r.captured]}
  /\ loading' = FALSE
  /\ inflight' = inflight \ {r}
  /\ UNCHANGED <<events, error, now, requests, lastOp, loaded>>
  /\ AppOnly

\* setDoc rejects.
handleSaveFail(r) ==
  /\ r \in inflight
  /\ r.kind = "save"
  /\ error' = "Save failed."
  /\ loading' = FALSE
  /\ inflight' = inflight \ {r}
  /\ UNCHANGED <<events, savedTimelines, now, requests, lastOp, loaded>>
  /\ AppOnly

\* Mutation: the loaded list is normalized before it is stored.
LoadNormalizing(tl) ==
  /\ tl \in savedTimelines
  /\ events' = Normalized(tl.events)
  /\ lastOp' = "load"
  /\ loaded' = tl.events
  /\ UNCHANGED <<loading, error, inflight, savedTimelines, now, requests>>
  /\ AppOnly

\* The library card's onClick: setEvents(tl.events || []).
loadTimelineFromLibrary(tl) ==
  /\ tl \in savedTimelines
  /\ events' = tl.events
  /\ lastOp' = "load"
  /\ loaded' = tl.events
  /\ UNCHANGED <<loading, error, inflight, savedTimelines, now, requests>>
  /\ AppOnly

\* The Delete button of the visible event at position p:
\* setEvents(calculateRelativeImportance(events.filter(e => e.id !== evt.id))).
\* The slider rests at 10 here, where every event is visible.
DeleteEvent(p) ==
  /\ p \in 1..Len(events)
  /\ OrDefault(events[p].relativeImportance, Num(1)).val >= 11 - zoomLevel
  /\ events' = Normalized(SelectSeq(events, LAMBDA e : e.id # events[p].id))
  /\ lastOp' = "delete"
  /\ loaded' = <<>>
  /\ UNCHANGED <<loading, error, inflight, savedTimelines, now, requests>>
  /\ AppOnly

\* Time passes while a request is in flight; the clock is kept below the
\* number of requests started.
Tick ==
  /\ inflight # {}
  /\ now < requests
  /\ now' = now + 1
  /\ UNCHANGED <<events, loading, error, inflight, savedTimelines, requests, lastOp, loaded>>
  /\ AppOnly

InitApp ==
  /\ mem = [objs |-> <<>>, arrs |-> << <<>> >>]
  /\ pre = mem
  /\ arg = 0
  /\ ret = 1
  /\ pc = "app"
  /\ zoomLevel = 10
  /\ AppMounted
  /\ user = TRUE

NextApp ==
  \/ handleCreateNew
  \/ AddEventsStart
  \/ \E r \in inflight, newRawEvents \in AiResponses : AddEventsArrive(r, newRawEvents)
  \/ \E r \in inflight : AddEventsFail(r)
  \/ loadFromSheetStart
  \/ \E r \in inflight, sheet \in Sheets : loadFromSheetArrive(r, sheet)
  \/ \E r \in inflight : loadFromSheetFail(r)
  \/ handleSaveStart
  \/ \E r \in inflight : handleSaveDone(r)
  \/ \E r \in inflight : handleSaveFail(r)
  \/ \E tl \in savedTimelines : loadTimelineFromLibrary(tl)
  \/ \E p \in 1..Len(events) : DeleteEvent(p)
  \/ Tick

SpecApp == InitApp /\ [][NextApp]_vars

\* -------------------------------------------------- the App, older variant
\* The variant of the App that retries its AI request, restores the zoom
\* level of a saved timeline and lays the visible events out with markers.
MAX_RETRIES == 5
RETRY_DELAYS == <<1000, 2000, 4000, 8000, 16000>>

\* `evt-${i}-${Date.now()}`
EvtId(i, t) == [src |-> "evt", idx |-> i, at |-> t]

\* A date text that new Date() does not parse.
NotADate == <<0, 0, 0>>

\* The data lines of a sheet with the columns date, title and importance.
SheetRowsOlder ==
  { [date |-> <<1900, 3, 1>>, title |-> "T", importance |-> CellNumber(5)],
    [date |-> <<1800, 6, 15>>, title |-> "T", importance |-> CellText],
    [date |-> NotADate, title |-> "T", importance |-> CellNumber(9)] }

SheetsOlder ==
  {<<>>} \cup {<<a>> : a \in SheetRowsOlder}
         \cup {<<a, b>> : a \in SheetRowsOlder, b \in SheetRowsOlder}

\* The one-row sheet, where what the sheet holds does not matter.
SheetsZoom == {<<row>> : row \in {r \in SheetRowsOlder : r.importance = CellNumber(5)}}

\* The list in date order: list.sort((a, b) => new Date(a.date) - new Date(b.date)).
SortedByDate(list) ==
  LET m == [objs |-> list, arrs |-> << [i \in 1..Len(list) |-> i] >>]
  IN Deref(SortByDate(m, 1), 1)

\* parseCSV for a text with at least one data line: line i (from 1) becomes
\* an event with importance parseInt(v, 10) || 1, kept when date and title
\* are not empty and the date parses; the events are returned in date order.
parseCSV(rows, t) ==
  SortedByDate(
    SelectSeq([i \in 1..Len(rows) |->
                 [id |-> EvtId(i, t),
                  date |-> rows[i].date,
                  title |-> rows[i].title,
                  importance |-> OrDefault(ParseInt(rows[i].importance), Num(1))]],
              LAMBDA e : e.date # <<>> /\ e.title # "" /\ e.date # NotADate))

\* The events of a generation response, JSON.parse(...).events.
GeneratedEvents ==
  { [date |-> <<2020, 6, 15>>, title |-> "T", importance |-> Num(10)],
    [date |-> <<1900, 3, 1>>, title |-> "T", importance |-> Num(3)] }

Generations ==
  {<<>>} \cup {<<e>> : e \in GeneratedEvents}
         \cup {<<e, f>> : e \in GeneratedEvents, f \in GeneratedEvents}

\* gen.map((e, idx) => ({ ...e, id: `ai-${idx}-${Date.now()}` }))
StampedOlder(generated, t) ==
  [k \in 1..Len(generated) |->
     [id |-> AiId(k - 1, t),
      date |-> generated[k].date,
      title |-> generated[k].title,
      importance |-> generated[k].importance]]

\* An operation in flight: its kind, the events and zoom level its closure
\* holds, the time it started, its number, and for a generation where
\* fetchWithRetry stands: in a fetch or in a wait, on which attempt, how many
\* fetches were made and which delays were waited.
RequestOlder(kind) ==
  [kind |-> kind, captured |-> events, zoom |-> zoomLevel, started |-> now,
   n |-> requests + 1, pc |-> "fetching", attempt |-> 0, tries |-> 1, waits |-> <<>>]

\* What the handlers of this variant leave alone besides the App state.
OlderOnly == UNCHANGED <<coreVars, loaded>>

\* onAuthStateChanged delivers the signed-in user.
SignedIn ==
  /\ ~user
  /\ user' = TRUE
  /\ UNCHANGED <<appVars, zoomLevel, gen, coreVars>>

\* A loadFromSheet that would abort the requests in flight before it starts
\* its own; the code has no abort.
loadFromSheetOlderStartAborting ==
  /\ requests < MaxRequests
  /\ loading' = TRUE
  /\ error' = ""
  /\ inflight' = {q \in inflight : q.kind = "save"} \cup {RequestOlder("sheet")}
  /\ requests' = requests + 1
  /\ UNCHANGED <<events, savedTimelines, now, lastOp, zoomLevel, user, gen>>
  /\ OlderOnly

\* loadFromSheet(url) up to the await of fetch; it does not look at loading.
loadFromSheetOlderStart ==
  /\ requests < MaxRequests
  /\ loading' = TRUE
  /\ error' = ""
  /\ inflight' = inflight \cup {RequestOlder("sheet")}
  /\ requests' = requests + 1
  /\ UNCHANGED <<events, savedTimelines, now, lastOp, zoomLevel, user, gen>>
  /\ OlderOnly

\* The response arrives and parseCSV returns: the parsed events replace the
\* collection.
loadFromSheetOlderArrive(r, rows) ==
  /\ r \in inflight
  /\ r.kind = "sheet"
  /\ now > r.started
  /\ Len(rows) >= 1
  /\ events' = parseCSV(rows, now)
  /\ loading' = FALSE
  /\ inflight' = inflight \ {r}
  /\ lastOp' = "import"
  /\ UNCHANGED <<error, savedTimelines, now, requests, zoomLevel, user, gen>>
  /\ OlderOnly

\* fetch throws, or parseCSV throws "Source is empty.".
loadFromSheetOlderFail(r) ==
  /\ r \in inflight
  /\ r.kind = "sheet"
  /\ error' = "Could not load sheet. Is it public?"
  /\ loading' = FALSE
  /\ inflight' = inflight \ {r}
  /\ UNCHANGED <<events, savedTimelines, now, requests, lastOp, zoomLevel, user, gen>>
  /\ OlderOnly

\* handleAIGeneration up to the first fetch of fetchWithRetry (a topic is
\* entered).
handleAIGenerationStart ==
  /\ ~loading
  /\ requests < MaxRequests
  /\ loading' = TRUE
  /\ error' = ""
  /\ inflight' = inflight \cup {RequestOlder("gen")}
  /\ requests' = requests + 1
  /\ UNCHANGED <<events, savedTimelines, now, lastOp, zoomLevel, user, gen>>
  /\ OlderOnly

\* A fetch of fetchWithRetry succeeds: the generated events replace the
\* collection.
FetchSucceeds(r, generated) ==
  /\ r \in inflight
  /\ r.kind = "gen"
  /\ r.pc = "fetching"
  /\ now > r.started
  /\ events' = StampedOlder(generated, now)
  /\ loading' = FALSE
  /\ inflight' = inflight \ {r}
  /\ lastOp' = "gen"
  /\ gen' = [outcome |-> "succeeded", tries |-> r.tries, waits |-> r.waits]
  /\ UNCHANGED <<error, savedTimelines, now, requests, zoomLevel, user>>
  /\ OlderOnly

\* Mutation: the catch block retries while attempt < MAX_RETRIES.
FetchFailsRetryingOnceMore(r) ==
  /\ r \in inflight
  /\ r.kind = "gen"
  /\ r.pc = "fetching"
  /\ IF r.attempt < MAX_RETRIES
     THEN /\ inflight' = (inflight \ {r}) \cup
                 {[r EXCEPT !.pc = "waiting",
                            !.waits = Append(@, RETRY_DELAYS[r.attempt + 1])]}
          /\ UNCHANGED <<error, loading, gen>>
     ELSE /\ error' = "AI failed. Try a different topic."
          /\ loading' = FALSE
          /\ inflight' = inflight \ {r}
          /\ gen' = [outcome |-> "failed", tries |-> r.tries, waits |-> r.waits]
  /\ UNCHANGED <<events, savedTimelines, now, requests, lastOp, zoomLevel, user>>
  /\ OlderOnly

\* A handleAIGeneration without the finally block: the last failure sets the
\* error and leaves loading as it is.
FetchFailsLeavingLoading(r) ==
  /\ r \in inflight
  /\ r.kind = "gen"
  /\ r.pc = "fetching"
  /\ IF r.attempt < MAX_RETRIES - 1
     THEN /\ inflight' = (inflight \ {r}) \cup
                 {[r EXCEPT !.pc = "waiting",
                            !.waits = Append(@, RETRY_DELAYS[r.attempt + 1])]}
          /\ UNCHANGED <<error, loading, gen>>
     ELSE /\ error' = "AI failed. Try a different topic."
          /\ inflight' = inflight \ {r}
          /\ gen' = [outcome |-> "failed", tries |-> r.tries, waits |-> r.waits]
          /\ UNCHANGED loading
  /\ UNCHANGED <<events, savedTimelines, now, requests, lastOp, zoomLevel, user>>
  /\ OlderOnly

\* A fetch of fetchWithRetry throws (network, response.json() or JSON.parse):
\* while attempt < MAX_RETRIES - 1 the catch block waits RETRY_DELAYS[attempt],
\* otherwise it rethrows and handleAIGeneration sets the error.
FetchFails(r) ==
  /\ r \in inflight
  /\ r.kind = "gen"
  /\ r.pc = "fetching"
  /\ IF r.attempt < MAX_RETRIES - 1
     THEN /\ inflight' = (inflight \ {r}) \cup
                 {[r EXCEPT !.pc = "waiting",
                            !.waits = Append(@, RETRY_DELAYS[r.attempt + 1])]}
          /\ UNCHANGED <<error, loading, gen>>
     ELSE /\ error' = "AI failed. Try a different topic."
          /\ loading' = FALSE
          /\ inflight' = inflight \ {r}
          /\ gen' = [outcome |-> "failed", tries |-> r.tries, waits |-> r.waits]
  /\ UNCHANGED <<events, savedTimelines, now, requests, lastOp, zoomLevel, user>>
  /\ OlderOnly

\* The timer of the wait fires: fetchWithRetry(attempt + 1).
RetryTimerFires(r) ==
  /\ r \in inflight
  /\ r.kind = "gen"
  /\ r.pc = "waiting"
  /\ inflight' = (inflight \ {r}) \cup
       {[r EXCEPT !.pc = "fetching", !.attempt = @ + 1, !.tries = @ + 1]}
  /\ UNCHANGED <<events, loading, error, savedTimelines, now, requests, lastOp,
                 zoomLevel, user, gen>>
  /\ OlderOnly

\* A saveTimeline without its first line: it starts whoever is signed in
\* and whatever the collection holds.
saveTimelineStartUnguarded ==
  /\ requests < MaxRequests
  /\ loading' = TRUE
  /\ inflight' = inflight \cup {RequestOlder("save")}
  /\ requests' = requests + 1
  /\ UNCHANGED <<events, error, savedTimelines, now, lastOp, zoomLevel, user, gen>>
  /\ OlderOnly

\* saveTimeline up to the await of setDoc (a name is entered): the document
\* holds the events and the zoom level of the closure.
saveTimelineStart ==
  /\ user
  /\ Len(events) # 0
  /\ requests < MaxRequests
  /\ loading' = TRUE
  /\ inflight' = inflight \cup {RequestOlder("save")}
  /\ requests' = requests + 1
  /\ UNCHANGED <<events, error, savedTimelines, now, lastOp, zoomLevel, user, gen>>
  /\ OlderOnly

saveTimelineDone(r) ==
  /\ r \in inflight
  /\ r.kind = "save"
  /\ savedTimelines' =
       {tl \in savedTimelines : tl.at # r.started}
         \cup {[at |-> r.started, events |-> r.captured, zoomLevel |-> r.zoom]}
  /\ loading' = FALSE
  /\ inflight' = inflight \ {r}
  /\ UNCHANGED <<events, error, now, requests, lastOp, zoomLevel, user, gen>>
  /\ OlderOnly

saveTimelineFail(r) ==
  /\ r \in inflight
  /\ r.kind = "save"
  /\ error' = "Cloud save failed."
  /\ loading' = FALSE
  /\ inflight' = inflight \ {r}
  /\ UNCHANGED <<events, savedTimelines, now, requests, lastOp, zoomLevel, user, gen>>
  /\ OlderOnly

\* loadTimelineFromLibrary(tl): setEvents(tl.events),
\* setZoomLevel(tl.zoomLevel || 5).
loadTimelineFromLibraryOlder(tl) ==
  /\ tl \in savedTimelines
  /\ events' = tl.events
  /\ zoomLevel' = OrDefault(Num(tl.zoomLevel), Num(5)).val
  /\ lastOp' = "load"
  /\ UNCHANGED <<loading, error, inflight, savedTimelines, now, requests, user, gen>>
  /\ OlderOnly

Max(a, b) == IF a >= b THEN a ELSE b

\* A zoom-out button without the Math.max.
ZoomOutUnclamped ==
  /\ zoomLevel' = zoomLevel - 1
  /\ UNCHANGED <<appVars, user, gen, coreVars>>

\* The zoom-out and zoom-in buttons and the slider between them.
ZoomOut ==
  /\ zoomLevel' = Max(1, zoomLevel - 1)
  /\ UNCHANGED <<appVars, user, gen, coreVars>>

ZoomIn ==
  /\ zoomLevel' = Min(10, zoomLevel + 1)
  /\ UNCHANGED <<appVars, user, gen, coreVars>>

setZoomLevel(z) ==
  /\ zoomLevel' = z
  /\ UNCHANGED <<appVars, user, gen, coreVars>>

TickOlder ==
  /\ inflight # {}
  /\ now < requests
  /\ now' = now + 1
  /\ UNCHANGED <<events, loading, error, inflight, savedTimelines, requests, lastOp,
                 zoomLevel, user, gen>>
  /\ OlderOnly

\* The older App as mounted: useState(5) for the zoom level, no user yet.
InitOlder ==
  /\ mem = [objs |-> <<>>, arrs |-> << <<>> >>]
  /\ pre = mem
  /\ arg = 0
  /\ ret = 1
  /\ pc = "app"
  /\ zoomLevel = 5
  /\ AppMounted
  /\ user = FALSE

NextOlder ==
  \/ SignedIn
  \/ loadFromSheetOlderStart
  \/ \E r \in inflight, rows \in SheetsOlder : loadFromSheetOlderArrive(r, rows)
  \/ \E r \in inflight : loadFromSheetOlderFail(r)
  \/ handleAIGenerationStart
  \/ \E r \in inflight, generated \in Generations : FetchSucceeds(r, generated)
  \/ \E r \in inflight : FetchFails(r)
  \/ \E r \in inflight : RetryTimerFires(r)
  \/ saveTimelineStart
  \/ \E r \in inflight : saveTimelineDone(r)
  \/ \E r \in inflight : saveTimelineFail(r)
  \/ \E tl \in savedTimelines : loadTimelineFromLibraryOlder(tl)
  \/ TickOlder

\* Requests and responses of the older App; the zoom controls are left
\* alone, the zoom level stays as mounted.
SpecOlder == InitOlder /\ [][NextOlder]_vars

\* The requests of the older App with one sheet and one generated list: what
\* the responses hold does not matter to loading.
GenerationsSettle == {<<e>> : e \in {g \in GeneratedEvents : g.importance = Num(10)}}

NextSettle ==
  \/ SignedIn
  \/ loadFromSheetOlderStart
  \/ \E r \in inflight, rows \in SheetsZoom : loadFromSheetOlderArrive(r, rows)
  \/ \E r \in inflight : loadFromSheetOlderFail(r)
  \/ handleAIGenerationStart
  \/ \E r \in inflight, generated \in GenerationsSettle : FetchSucceeds(r, generated)
  \/ \E r \in inflight : FetchFails(r)
  \/ \E r \in inflight : RetryTimerFires(r)
  \/ saveTimelineStart
  \/ \E r \in inflight : saveTimelineDone(r)
  \/ \E r \in inflight : saveTimelineFail(r)
  \/ TickOlder

\* What the browser does for the request numbered n without the user: the
\* promise of its network call settles, or the timer of its wait fires.
Settles(n) ==
  \E r \in inflight :
    /\ r.n = n
    /\ \/ \E rows \in SheetsZoom : loadFromSheetOlderArrive(r, rows)
       \/ loadFromSheetOlderFail(r)
       \/ \E generated \in GenerationsSettle : FetchSucceeds(r, generated)
       \/ FetchFails(r)
       \/ RetryTimerFires(r)
       \/ saveTimelineDone(r)
       \/ saveTimelineFail(r)

\* The requests of the older App when every network call settles and every
\* timer fires: the event loop runs the continuation of each request in
\* flight.
SpecSettle ==
  InitOlder /\ [][NextSettle]_vars /\ \A n \in 1..MaxRequests : WF_vars(Settles(n))

\* The zoom controls of the older App, with the operations that read or set
\* the zoom level (save, library load) and the sheet import that gives them
\* events to save.
NextZoom ==
  \/ SignedIn
  \/ loadFromSheetOlderStart
  \/ \E r \in inflight, rows \in SheetsZoom : loadFromSheetOlderArrive(r, rows)
  \/ \E r \in inflight : loadFromSheetOlderFail(r)
  \/ saveTimelineStart
  \/ \E r \in inflight : saveTimelineDone(r)
  \/ \E r \in inflight : saveTimelineFail(r)
  \/ \E tl \in savedTimelines : loadTimelineFromLibraryOlder(tl)
  \/ ZoomOut
  \/ ZoomIn
  \/ \E z \in ZoomLevels : setZoomLevel(z)
  \/ TickOlder

SpecZoom == InitOlder /\ [][NextZoom]_vars

\* ------------------------------------------------------------------ claims
\* The list the last call was given, as it was when the call started, and
\* the list the call returned.
Input == Deref(pre, arg)
Output == Deref(mem, ret)

NormalizeDone == pc \in {"normalized", "renormalized"}

\* rawImportance as the specification reads it: the number, 0 when absent.
RawImportance(e) ==
  IF e.absoluteImportance.kind = "number" THEN e.absoluteImportance.val ELSE 0

DisplayTier(e) == e.relativeImportance.val

\* Calendar order of two dates.
DateLeq(d, e) ==
  \/ d[1] < e[1]
  \/ d[1] = e[1] /\ d[2] < e[2]
  \/ d[1] = e[1] /\ d[2] = e[2] /\ d[3] <= e[3]

\* The position in list l of the event with the given id.
PosOf(l, id) == CHOOSE i \in 1..Len(l) : l[i].id = id

\* C1: every event returned by the normalizer carries a displayTier that is
\* an integer between 1 and 10.
C1_TierBounds ==
  NormalizeDone =>
    \A i \in 1..Len(Output) :
      /\ Output[i].relativeImportance.kind = "number"
      /\ Output[i].relativeImportance.val \in 1..10

C1_Witness ==
  /\ pc = "normalized"
  /\ Len(Output) = 3
  /\ {DisplayTier(Output[i]) : i \in 1..3} = {4, 7, 10}

\* C2: tier monotonicity: of two events returned by one normalizer call, the
\* one with the greater rawImportance never has the lower displayTier.
C2_TierMonotone ==
  NormalizeDone =>
    \A i, j \in 1..Len(Output) :
      RawImportance(Output[i]) > RawImportance(Output[j])
        => DisplayTier(Output[i]) >= DisplayTier(Output[j])

C2_Witness ==
  /\ pc = "normalized"
  /\ \E i, j \in 1..Len(Input) :
       /\ i < j
       /\ RawImportance(Input[i]) > RawImportance(Input[j])
       /\ ~DateLeq(Input[j].date, Input[i].date)
       /\ DisplayTier(Output[PosOf(Output, Input[i].id)])
            > DisplayTier(Output[PosOf(Output, Input[j].id)])

\* The one-based position of input event k in the stable ascending sort of
\* the input by rawImportance: the events that sort before it, and itself.
StableRank(l, k) ==
  Cardinality({h \in 1..Len(l) :
     \/ RawImportance(l[h]) < RawImportance(l[k])
     \/ RawImportance(l[h]) = RawImportance(l[k]) /\ h <= k})

\* C3: the event at zero-based position i of the stable ascending sort by
\* rawImportance, out of n events, gets displayTier min(10, ceil((i+1)/n*10)).
C3_TierFormula ==
  NormalizeDone =>
    \A k \in 1..Len(Input) :
      DisplayTier(Output[PosOf(Output, Input[k].id)])
        = Min(10, CeilDiv(StableRank(Input, k) * 10, Len(Input)))

C3_Witness ==
  /\ pc = "normalized"
  /\ Len(Input) = 3
  /\ RawImportance(Input[1]) = 20
  /\ RawImportance(Input[2]) = 0
  /\ RawImportance(Input[3]) = 20
  /\ DisplayTier(Output[PosOf(Output, 1)]) = 7
  /\ DisplayTier(Output[PosOf(Output, 2)]) = 4
  /\ DisplayTier(Output[PosOf(Output, 3)]) = 10

\* C4: the list the normalizer returns is in ascending date order, whatever
\* the input order and the rawImportance values.
C4_ChronologicalOutput ==
  NormalizeDone =>
    \A i \in 1..(Len(Output) - 1) : DateLeq(Output[i].date, Output[i + 1].date)

C4_Witness ==
  /\ pc = "normalized"
  /\ Len(Input) = 3
  /\ ~DateLeq(Input[1].date, Input[2].date)
  /\ ~DateLeq(Input[2].date, Input[3].date)
  /\ RawImportance(Input[1]) < RawImportance(Input[2])
  /\ Output[1].id = 3

\* C5: the normalizer returns a list as long as its input that holds exactly
\* the input events, each id once and every field but displayTier unchanged;
\* the empty list gives the empty list.
C5_SameEvents ==
  NormalizeDone =>
    /\ Len(Output) = Len(Input)
    /\ \A k \in 1..Len(Input) :
         /\ Cardinality({i \in 1..Len(Output) : Output[i].id = Input[k].id}) = 1
         /\ \A i \in 1..Len(Output) :
              Output[i].id = Input[k].id =>
                /\ Output[i].date = Input[k].date
                /\ Output[i].absoluteImportance = Input[k].absoluteImportance

C5_Witness ==
  /\ pc = "normalized"
  /\ Len(Input) = 3
  /\ Len(Output) = 3
  /\ Output[1].id = 2
  /\ Output[2].id = 3
  /\ Output[3].id = 1

C5_WitnessEmpty == pc = "normalized" /\ Len(Input) = 0 /\ Len(Output) = 0

\* C6: idempotence: normalizing the normalizer's own output gives every event
\* the displayTier it already had.
C6_Idempotent ==
  pc = "renormalized" =>
    \A k \in 1..Len(Input) :
      DisplayTier(Output[PosOf(Output, Input[k].id)]) = DisplayTier(Input[k])

\* C7: bucket count: n events get at most min(n, 10) distinct tiers, and each
\* tier 1..10 holds floor(n/10) or ceil(n/10) events.
C7_BucketCount ==
  NormalizeDone =>
    LET n == Len(Output)
        members(t) == {i \in 1..n : DisplayTier(Output[i]) = t}
    IN /\ Cardinality({DisplayTier(Output[i]) : i \in 1..n}) <= Min(n, 10)
       /\ \A t \in 1..10 :
            \/ Cardinality(members(t)) = n \div 10
            \/ Cardinality(members(t)) = CeilDiv(n, 10)

C7_Witness ==
  /\ pc = "normalized"
  /\ Len(Output) = 12
  /\ Cardinality({i \in 1..12 : DisplayTier(Output[i]) = 1}) = 1
  /\ Cardinality({i \in 1..12 : DisplayTier(Output[i]) = 10}) = 2
  /\ RawImportance(Input[1]) > RawImportance(Input[12])

\* C8: tie-break: of two events with equal rawImportance, the one earlier in
\* the input never gets the higher displayTier.
C8_TieBreak ==
  NormalizeDone =>
    \A h, k \in 1..Len(Input) :
      (h < k /\ RawImportance(Input[h]) = RawImportance(Input[k]))
        => DisplayTier(Output[PosOf(Output, Input[h].id)])
             <= DisplayTier(Output[PosOf(Output, Input[k].id)])

C8_Witness ==
  /\ pc = "normalized"
  /\ \E h, k \in 1..Len(Input) :
       /\ h < k
       /\ RawImportance(Input[h]) = RawImportance(Input[k])
       /\ ~DateLeq(Input[h].date, Input[k].date)
       /\ DisplayTier(Output[PosOf(Output, Input[h].id)])
            < DisplayTier(Output[PosOf(Output, Input[k].id)])

\* C9: an event whose rawImportance is absent or invalid is ranked as if it
\* were 0: it never gets a higher displayTier than an event whose
\* rawImportance is positive.
C9_InvalidRanksAsZero ==
  NormalizeDone =>
    \A i, j \in 1..Len(Output) :
      (/\ Output[i].absoluteImportance.kind # "number"
       /\ Output[j].absoluteImportance.kind = "number"
       /\ Output[j].absoluteImportance.val > 0)
        => DisplayTier(Output[i]) <= DisplayTier(Output[j])

\* What does hold there: the events whose rawImportance is absent (undefined
\* or NaN) are ranked as 0.
C9_AbsentRanksAsZero ==
  NormalizeDone =>
    \A i, j \in 1..Len(Output) :
      (/\ Output[i].absoluteImportance.kind \in {"undefined", "NaN"}
       /\ Output[j].absoluteImportance.kind = "number"
       /\ Output[j].absoluteImportance.val > 0)
        => DisplayTier(Output[i]) <= DisplayTier(Output[j])

\* C10: the normalizer, the zoom filter and the layout builder leave their
\* argument as it was: the array passed holds the same references in the same
\* order, every object that existed before the call has the same fields
\* (an earlier displayTier included), and the array returned is a new one.
C10_ArgumentsUntouched ==
  arg # 0 =>
    /\ \A a \in DOMAIN pre.arrs : mem.arrs[a] = pre.arrs[a]
    /\ \A r \in DOMAIN pre.objs : mem.objs[r] = pre.objs[r]
    /\ ret \notin DOMAIN pre.arrs
    /\ ret \in DOMAIN mem.arrs

C10_Witness ==
  /\ pc = "laid"
  /\ zoomLevel = 5
  /\ Len(pre.arrs[1]) = 3
  /\ Len(mem.arrs[arg]) = 2
  /\ Len(mem.arrs[ret]) > 2
  /\ mem.arrs[1] # mem.arrs[2]

\* C11: filterByZoom returns, in input order, exactly the events whose
\* displayTier is at least 11 - zoomLevel: every event at zoom 10, only the
\* tier-10 events at zoom 1.
C11_FilterByZoom ==
  pc = "filtered" =>
    /\ Output = SelectSeq(Input, LAMBDA e : DisplayTier(e) >= 11 - zoomLevel)
    /\ zoomLevel = 10 => Output = Input
    /\ zoomLevel = 1 =>
         /\ \A i \in 1..Len(Output) : DisplayTier(Output[i]) = 10
         /\ \A i \in 1..Len(Input) :
              DisplayTier(Input[i]) = 10 => \E j \in 1..Len(Output) : Output[j] = Input[i]

C11_Witness ==
  /\ pc = "filtered"
  /\ zoomLevel = 5
  /\ Len(Input) = 3
  /\ Len(Output) = 2
  /\ {DisplayTier(Output[i]) : i \in 1..2} = {7, 10}

\* The years of the visible events handed to layoutItems, and the items.
LayoutDone == pc = "laid"
InputYears == [i \in 1..Len(Input) |-> GetFullYear(Input[i].date)]

\* The position in the items of the k-th event item.
EventItemPos(items, k) ==
  CHOOSE p \in 1..Len(items) :
    /\ items[p].type = "event"
    /\ Cardinality({q \in 1..p : items[q].type = "event"}) = k

\* The years of the items that stand between event items k - 1 and k.
YearsBefore(items, k) ==
  LET from == EventItemPos(items, k - 1)
      to == EventItemPos(items, k)
  IN [j \in 1..(to - from - 1) |-> items[from + j].year]

\* s is the run lo + step, lo + 2 step, ... of all such years below hi.
IsMarkerRun(s, lo, hi, step) ==
  /\ \A j \in 1..Len(s) : s[j] = lo + j * step /\ s[j] < hi
  /\ lo + (Len(s) + 1) * step >= hi

\* C12 as stated: the step between two consecutive visible events is 50 for
\* a gap over 100 years, 10 for a gap over 20 years, 1 or 5 below; 1900 and
\* 2020 give the markers 1950 and 2000, 1800 and 1850 give 1810 .. 1840.
C12_StepTableAsStated ==
  LayoutDone =>
    /\ \A k \in 2..Len(Input) :
         LET lo == InputYears[k - 1]
             hi == InputYears[k]
             run == YearsBefore(Output, k)
         IN hi > lo =>
              IF hi - lo > 100 THEN IsMarkerRun(run, lo, hi, 50)
              ELSE IF hi - lo > 20 THEN IsMarkerRun(run, lo, hi, 10)
              ELSE IsMarkerRun(run, lo, hi, 1) \/ IsMarkerRun(run, lo, hi, 5)
    /\ InputYears = <<1900, 2020>> => YearsBefore(Output, 2) = <<1950, 2000>>
    /\ InputYears = <<1800, 1850>> => YearsBefore(Output, 2) = <<1810, 1820, 1830, 1840>>

\* C12 amended: the step between two consecutive visible events is 25 for a
\* gap over 50 years and 5 otherwise; 1900 and 2020 give the markers 1925,
\* 1950, 1975 and 2000, 1800 and 1850 give 1805, 1810, .. 1845.
C12_StepTable ==
  LayoutDone =>
    /\ \A k \in 2..Len(Input) :
         LET lo == InputYears[k - 1]
             hi == InputYears[k]
             run == YearsBefore(Output, k)
         IN hi > lo =>
              IF hi - lo > 50 THEN IsMarkerRun(run, lo, hi, 25)
              ELSE IsMarkerRun(run, lo, hi, 5)
    /\ InputYears = <<1900, 2020>> =>
         YearsBefore(Output, 2) = <<1925, 1950, 1975, 2000>>
    /\ InputYears = <<1800, 1850>> =>
         YearsBefore(Output, 2) = <<1805, 1810, 1815, 1820, 1825, 1830, 1835, 1840, 1845>>

C12_Witness ==
  /\ LayoutDone
  /\ InputYears = <<1900, 2020>>
  /\ Len(Output) = 6
  /\ YearsBefore(Output, 2) = <<1925, 1950, 1975, 2000>>

\* C13: every marker stands between two consecutive visible events with
\* years lo < hi, at a year lo + n * step (n >= 1) strictly between lo and
\* hi; no marker stands before the first or after the last event item; zero
\* or one event gives no marker; two consecutive events in the same year or
\* one year apart have no marker between them.
C13_MarkersBetweenEvents ==
  LayoutDone =>
    /\ \A p \in 1..Len(Output) :
         Output[p].type = "marker" =>
           \E k \in 2..Len(Input) :
             LET lo == InputYears[k - 1]
                 hi == InputYears[k]
                 step == IF hi - lo > 50 THEN 25 ELSE 5
             IN /\ EventItemPos(Output, k - 1) < p
                /\ p < EventItemPos(Output, k)
                /\ lo < hi
                /\ lo < Output[p].year
                /\ Output[p].year < hi
                /\ \E n \in 1..(hi - lo) : Output[p].year = lo + n * step
    /\ Len(Output) > 0 =>
         Output[1].type = "event" /\ Output[Len(Output)].type = "event"
    /\ Len(Input) <= 1 => \A p \in 1..Len(Output) : Output[p].type = "event"
    /\ \A k \in 2..Len(Input) :
         InputYears[k] - InputYears[k - 1] \in {0, 1} => YearsBefore(Output, k) = <<>>

C13_Witness ==
  /\ LayoutDone
  /\ InputYears = <<1900, 1901, 2020>>
  /\ YearsBefore(Output, 2) = <<>>
  /\ YearsBefore(Output, 3) = <<1926, 1951, 1976, 2001>>

\* The year an item stands for: a marker's year, an event item's event's.
ItemYear(item) ==
  IF item.type = "marker" THEN item.year ELSE GetFullYear(mem.objs[item.data].date)

\* C14: the items hold every visible event exactly once as an event item,
\* in input order; when the visible events are in date order, the years of
\* successive items never decrease.
C14_EventsKeptInOrder ==
  LayoutDone =>
    LET eventItems == SelectSeq(Output, LAMBDA item : item.type = "event")
    IN /\ [i \in 1..Len(eventItems) |-> eventItems[i].data] = pre.arrs[arg]
       /\ [i \in 1..Len(eventItems) |-> mem.objs[eventItems[i].data]] = Input
       /\ (\A i \in 1..(Len(Input) - 1) : DateLeq(Input[i].date, Input[i + 1].date))
            => \A p \in 1..(Len(Output) - 1) : ItemYear(Output[p]) <= ItemYear(Output[p + 1])

C14_Witness ==
  /\ LayoutDone
  /\ InputYears = <<1800, 1850, 1900>>
  /\ Len(Output) = 21
  /\ Output[11].type = "event"

\* C15: ten events with pairwise distinct rawImportance get the tiers 1..10,
\* one each, in ascending order of importance (10, 20, .., 100 get 1, 2, ..,
\* 10); for at most ten events all tiers are pairwise distinct.
C15_OneTierEach ==
  pc = "normalized" =>
    LET n == Len(Output)
        distinct == \A i, j \in 1..n : i # j => RawImportance(Input[i]) # RawImportance(Input[j])
    IN /\ (n = 10 /\ distinct) =>
            /\ {DisplayTier(Output[i]) : i \in 1..n} = 1..10
            /\ \A i \in 1..n :
                 DisplayTier(Output[i]) =
                   Cardinality({j \in 1..n : RawImportance(Output[j]) <= RawImportance(Output[i])})
            /\ {RawImportance(Input[i]) : i \in 1..n} = {10 * t : t \in 1..10}
                 => \A i \in 1..n : 10 * DisplayTier(Output[i]) = RawImportance(Output[i])
       /\ n <= 10 =>
            \A i, j \in 1..n : i # j => DisplayTier(Output[i]) # DisplayTier(Output[j])

C15_Witness ==
  /\ pc = "normalized"
  /\ [i \in 1..Len(Input) |-> RawImportance(Input[i])] =
       <<10, 20, 30, 40, 50, 60, 70, 80, 90, 100>>
  /\ [i \in 1..Len(Input) |-> GetFullYear(Input[i].date)] = [i \in 1..10 |-> 1999 + i]
  /\ [i \in 1..Len(Output) |-> DisplayTier(Output[i])] = [i \in 1..10 |-> i]

\* List l without its element at position p.
Without(l, p) == [i \in 1..(Len(l) - 1) |-> IF i < p THEN l[i] ELSE l[i + 1]]

DateSorted(l) == \A i \in 1..(Len(l) - 1) : DateLeq(l[i].date, l[i + 1].date)

\* The tiers of l are those of a ranking of all of l by importance: tier t
\* is held by as many events as there are ranks k with min(10, ceil(10 k / n))
\* = t, and a less important event never has the higher tier.
TiersCurrent(l) ==
  LET n == Len(l)
  IN /\ \A t \in 1..10 :
          Cardinality({i \in 1..n : l[i].relativeImportance = Num(t)})
            = Cardinality({k \in 1..n : Min(10, CeilDiv(10 * k, n)) = t})
     /\ \A i, j \in 1..n :
          RawImportance(l[i]) < RawImportance(l[j])
            => l[i].relativeImportance.val <= l[j].relativeImportance.val

\* C16: every mutation recomputes all tiers over the new full set: a delete
\* leaves normalize(previous events without the deleted one), an add-events
\* response leaves normalize(the previous events the handler held, followed
\* by the new events), and after an add, import or delete the collection is
\* date-sorted with the tiers the normalizer assigns to the current full set.
C16_MutationsRenormalize ==
  [][ /\ (lastOp' = "delete" /\ Len(events') < Len(events)) =>
           \E p \in 1..Len(events) : events' = Normalized(Without(events, p))
      /\ \A r \in inflight, new \in AiResponses :
           AddEventsArrive(r, new) =>
             /\ events' = Normalized(r.captured \o Stamped(new, now))
             /\ Len(events') = Len(r.captured) + Len(new)
      /\ lastOp' \in {"add", "add-over", "import", "delete"} =>
           DateSorted(events') /\ TiersCurrent(events') ]_vars

\* C17: a library load stores exactly the persisted list, not normalized
\* again, and the collection stays that list, tiers included, until the next
\* add, import, delete or new timeline.
C17_LoadKeepsPersisted ==
  lastOp = "load" => events = loaded

C17_Witness ==
  /\ lastOp = "load"
  /\ Len(events) = 2
  /\ [tl \in savedTimelines |-> tl.events] # [tl \in savedTimelines |-> <<>>]
  /\ \E tl \in savedTimelines : tl.events = events
  /\ Normalized(events) # events

\* C18: every event in the collection, imported or generated, has a
\* non-empty title and a valid date.
C18_OnlyValidEvents ==
  \A i \in 1..Len(events) : events[i].title # "" /\ events[i].date # <<>>

\* C19: every imported event has a rawImportance: the number in the
\* importance column, or 50 when the column is absent or the cell is not a
\* number.
C19_ImportedImportance ==
  \A i \in 1..Len(events) :
    events[i].id.src # "ai" => events[i].absoluteImportance.kind = "number"

\* C20: in every reachable state the events of the collection have pairwise
\* distinct ids.
C20_DistinctIds ==
  \A i, j \in 1..Len(events) : i # j => events[i].id # events[j].id

\* ------------------------------------------------- claims on the older App
\* The waits the retry schedule is stated to use, in milliseconds.
StatedWaits == <<1000, 2000, 4000, 8000>>

GenRequests(S) == {r \in S : r.kind = "gen"}

\* C21: a generation request is attempted at most five times, the waits
\* between consecutive attempts are 1 s, 2 s, 4 s and 8 s in this order, the
\* first success ends the request, and the fifth failure ends it with the
\* error message set and the events left as they were.
C21_RetrySchedule ==
  [][ /\ \A r \in GenRequests(inflight') :
            /\ r.tries \in 1..5
            /\ Len(r.waits) = (IF r.pc = "waiting" THEN r.tries ELSE r.tries - 1)
            /\ Len(r.waits) <= Len(StatedWaits)
            /\ r.waits = SubSeq(StatedWaits, 1, Len(r.waits))
      /\ \A r \in GenRequests(inflight) :
            /\ (\E generated \in Generations : FetchSucceeds(r, generated))
                 => /\ ~\E q \in inflight' : q.n = r.n
                    /\ gen'.tries = r.tries
            /\ (FetchFails(r) /\ r.tries = 5)
                 => /\ ~\E q \in inflight' : q.n = r.n
                    /\ error' # ""
                    /\ events' = events
                    /\ gen' = [outcome |-> "failed", tries |-> 5,
                                waits |-> StatedWaits]
            /\ (FetchFails(r) /\ r.tries < 5)
                 => /\ \E q \in inflight' : q.n = r.n /\ q.pc = "waiting"
                    /\ UNCHANGED <<events, error, loading>>
    ]_vars

C21_Witness ==
  /\ gen = [outcome |-> "failed", tries |-> 5, waits |-> StatedWaits]
  /\ error = "AI failed. Try a different topic."
  /\ ~loading

\* The requests that bring events in: a sheet import or an AI generation.
Ingestions(S) == {r \in S : r.kind \in {"sheet", "gen"}}

\* C22: when an ingestion request is started while an earlier one is in
\* flight, the earlier one is not aborted, and the collection is what the
\* response arriving last wrote: each arriving response replaces the whole
\* collection with its own events, whatever was there, and leaves the other
\* requests in flight.
C22_LastWriteWins ==
  [][ /\ (requests' = requests + 1) => (inflight \subseteq inflight')
      /\ \A r \in Ingestions(inflight) :
            /\ \A rows \in SheetsOlder :
                  loadFromSheetOlderArrive(r, rows)
                    => /\ events' = parseCSV(rows, now)
                       /\ inflight' = inflight \ {r}
            /\ \A generated \in Generations :
                  FetchSucceeds(r, generated)
                    => /\ events' = StampedOlder(generated, now)
                       /\ inflight' = inflight \ {r}
      /\ \A i, j \in 1..Len(events') :
            /\ events'[i].id.src = events'[j].id.src
            /\ events'[i].id.at = events'[j].id.at
    ]_vars

\* The second request was started while the first was in flight, and its
\* response has arrived first and written the collection.
C22_Witness ==
  /\ requests >= 2
  /\ events # <<>>
  /\ lastOp \in {"import", "gen"}
  /\ \E q \in Ingestions(inflight) : q.n = 1 /\ q.captured = <<>>
  /\ savedTimelines = {}

C24_RenderedIsLayout ==
  pc = "rendered" =>
    LET layout == buildLayout(pre, arg)
    IN Deref(mem, ret) = Deref(layout.mem, layout.ref)

\* C25: the zoom level is an integer from 1 to 10 in every reachable state:
\* the buttons stop at 1 and at 10, the slider gives 1..10, and a saved
\* timeline holds, and a load restores, a zoom level in this range.
C25_ZoomInRange ==
  /\ zoomLevel \in 1..10
  /\ \A tl \in savedTimelines : tl.zoomLevel \in 1..10
  /\ \A r \in inflight : r.zoom \in 1..10

\* A timeline saved at zoom level 1, the lower stop of the zoom-out button,
\* has been loaded back from the library.
C25_Witness ==
  /\ lastOp = "load"
  /\ zoomLevel = 1
  /\ events # <<>>
  /\ \E tl \in savedTimelines : tl.zoomLevel = 1 /\ tl.events = events

Ids(list) == {list[i].id : i \in 1..Len(list)}

\* C26: when the response of an add-events request arrives, the collection
\* becomes normalize(the events held when the request started, followed by
\* the new events), whatever the collection is by then: a delete, import,
\* new timeline or load made during the request is overwritten, and an event
\* deleted during the request is present again.
C26_AddWritesCapturedEvents ==
  [][ \A r \in inflight :
        (r.kind = "add" /\ r \notin inflight' /\ ~AddEventsFail(r)) =>
          /\ Ids(r.captured) \subseteq Ids(events')
          /\ \E new \in AiResponses :
                /\ Ids(events') = Ids(r.captured) \cup Ids(Stamped(new, now))
                /\ events' = Normalized(r.captured \o Stamped(new, now))
    ]_vars

\* The response has arrived after the collection had changed during the
\* request, and the events of the closure are back.
C26_Witness ==
  /\ lastOp = "add-over"
  /\ \E i \in 1..Len(events) : events[i].id.src # "ai"

\* C27: at most one AI generation request is in flight at any time, and
\* loading stays true from the start of the request until it settles,
\* whatever saves and imports interleave.
C27_OneGenerationInFlight ==
  /\ Cardinality(GenRequests(inflight)) <= 1
  /\ GenRequests(inflight) # {} => loading

\* C28: every started generation, import or save eventually ends with
\* loading set back to false, on success and on failure, also after the
\* retries are exhausted, provided its network calls settle.
C28_LoadingEventuallyFalse ==
  \A n \in 1..MaxRequests :
    (\E r \in inflight : r.n = n) ~> (~loading /\ ~\E r \in inflight : r.n = n)

\* A generation has ended after its last retry and an import has ended with
\* a response; nothing is in flight and loading is false.
C28_Witness ==
  /\ inflight = {}
  /\ ~loading
  /\ requests >= 2
  /\ gen.outcome = "failed"
  /\ lastOp = "import"

\* C29: whenever the normalizer is given a non-empty list, at least one of
\* the events it returns has tier 10, so the zoom filter at zoom level 1
\* shows at least one event of a non-empty normalized collection.
C29_TopTierPresent ==
  /\ (NormalizeDone /\ Len(Input) > 0) =>
        \E i \in 1..Len(Output) : Output[i].relativeImportance = Num(10)
  /\ (pc = "filtered" /\ zoomLevel = 1 /\ Len(Input) > 0) => Len(Output) >= 1

\* Three normalized events filtered at zoom level 1: one is shown.
C29_Witness ==
  /\ pc = "filtered"
  /\ zoomLevel = 1
  /\ Len(Input) = 3
  /\ Len(Output) = 1
  /\ Output[1].relativeImportance = Num(10)

SaveRequests(S) == {r \in S : r.kind = "save"}

\* C30: Save does nothing when nobody is signed in (which includes a missing
\* database handle) or the collection is empty: from such a state no save is
\* started and nothing is written, so every save in flight and every saved
\* document holds a non-empty list of events.
C30_SaveGuard ==
  [][ /\ (~user \/ events = <<>>) => (SaveRequests(inflight') \subseteq inflight)
      /\ ~user => savedTimelines' = savedTimelines
      /\ \A r \in SaveRequests(inflight') : r.captured # <<>>
      /\ \A tl \in savedTimelines' : tl.events # <<>>
    ]_vars

\* The timeline holds imported events and nobody is signed in yet: Save
\* returns at once, nothing is in flight and nothing is saved.
C30_Witness ==
  /\ ~user
  /\ events # <<>>
  /\ lastOp = "import"
  /\ inflight = {}
  /\ savedTimelines = {}

====
